---- MODULE Spec2Model ----
(***************************************************************************)
(* Model of tools/generate_app_icons.py: the one procedure                 *)
(* generate_app_icons(), its icon table, the generation loop, the          *)
(* construction of Contents.json and the files it leaves on disk.          *)
(*                                                                         *)
(* The environment decides three things: whether the source image opens    *)
(* (source_state), what the output directory held before the run (prior),  *)
(* and which table entries fail in resize or in save (outcome).            *)
(* os.makedirs, open(contents_path, 'w') and json.dump are taken to        *)
(* succeed: the program has no handler for them and the properties below   *)
(* speak of the source load and of per-entry failures only.                *)
(***************************************************************************)
EXTENDS Integers, Sequences, FiniteSets, TLC

VARIABLES
    pc,               \* position in generate_app_icons / in the process
    source_state,     \* the file at source_path: "valid", "missing", "corrupt"
    outcome,          \* per table position: "ok", "resize_error", "save_error"
    dir_exists,       \* whether output_dir exists
    files,            \* the files of output_dir: filename -> content
    source_image,     \* local source_image
    generated_files,  \* local generated_files
    contents_json,    \* local contents_json
    i,                \* position of the generation loop in icon_sizes.items()
    stdout,           \* the lines printed so far
    exit_status,      \* "running", then the process exit status "0" or "1"
    written,          \* history: filenames whose save returned in this run
    prior,            \* history: output_dir as it was when this run started
    run,              \* which run of the script this is (1 or 2)
    cname,            \* manifest loop body on its own: the name it is given
    csize,            \* manifest loop body on its own: the size it is given
    cout              \* manifest loop body on its own: the image entry it built

vars == << pc, source_state, outcome, dir_exists, files, source_image,
           generated_files, contents_json, i, stdout, exit_status, written,
           prior, run, cname, csize, cout >>

(***************************************************************************)
(* Bounds.                                                                 *)
(***************************************************************************)
\* at most this many table entries fail in a run, unless every entry fails
MaxFail == 2
\* classification inputs are concatenations of at most this many tokens
MaxTokens == 3

(***************************************************************************)
(* The static table, in dict insertion order (the order items() yields).   *)
(***************************************************************************)
icon_sizes ==
    << <<"AppStore", 1024>>,
       <<"iPhone-20@2x", 40>>,
       <<"iPhone-20@3x", 60>>,
       <<"iPhone-29@2x", 58>>,
       <<"iPhone-29@3x", 87>>,
       <<"iPhone-40@2x", 80>>,
       <<"iPhone-40@3x", 120>>,
       <<"iPhone-60@2x", 120>>,
       <<"iPhone-60@3x", 180>>,
       <<"iPad-20", 20>>,
       <<"iPad-20@2x", 40>>,
       <<"iPad-29", 29>>,
       <<"iPad-29@2x", 58>>,
       <<"iPad-40", 40>>,
       <<"iPad-40@2x", 80>>,
       <<"iPad-76", 76>>,
       <<"iPad-76@2x", 152>>,
       <<"iPad-83.5@2x", 167>> >>

N == Len(icon_sizes)

NameOf(k) == icon_sizes[k][1]

SizeOf(k) == icon_sizes[k][2]

(***************************************************************************)
(* Strings.                                                                *)
(***************************************************************************)
\* Python's  sub in s
Contains(sub, s) ==
    \E p \in 1..(Len(s) - Len(sub) + 1) : SubSeq(s, p, p + Len(sub) - 1) = sub

Digit(d) == SubSeq("0123456789", d + 1, d + 1)

RECURSIVE DecimalString(_)
\* f"{size}" for an int
DecimalString(n) ==
    IF n < 0 THEN "-" \o DecimalString(0 - n)
    ELSE IF n < 10 THEN Digit(n)
    ELSE DecimalString(n \div 10) \o Digit(n % 10)

\* filename = f"{name}.png"
Filename(name) == name \o ".png"

\* mutant: f"{size}"
SizeField_Single(size) == DecimalString(size)

\* f"{size}x{size}"
SizeField(size) == DecimalString(size) \o "x" \o DecimalString(size)

ContentsName == "Contents.json"

(***************************************************************************)
(* Images and files.                                                       *)
(***************************************************************************)
NoImage == [kind |-> "none", from |-> "none"]

\* Image.open(source_path) when it succeeds
OpenedImage == [kind |-> "image", from |-> "icon.png"]

\* mutant: resize((size, size + 1))
Resized_Tall(img, size) ==
    [kind |-> "png", from |-> img.from, w |-> size, h |-> size + 1]

\* source_image.resize((size, size), LANCZOS), saved as PNG
Resized(img, size) == [kind |-> "png", from |-> img.from, w |-> size, h |-> size]

PartialFile == [kind |-> "partial"]

NoFiles == [f \in {} |-> NoImage]

\* mutant: the file is opened in append mode
WriteFile_Append(fs, path, data) ==
    [f \in (DOMAIN fs) \cup {path} |->
        IF f # path THEN fs[f]
        ELSE IF path \in DOMAIN fs
             THEN [kind |-> "appended", old |-> fs[path], new |-> data]
             ELSE data]

\* opening a path for writing truncates it: the new content replaces the old
WriteFile(fs, path, data) ==
    [f \in (DOMAIN fs) \cup {path} |-> IF f = path THEN data ELSE fs[f]]

(***************************************************************************)
(* The manifest loop body and the loop.                                    *)
(***************************************************************************)
\* mutant: the AppStore test comes first
idiom_AppStoreFirst(name) ==
    IF Contains("AppStore", name) THEN "ios-marketing"
    ELSE IF Contains("iPhone", name) THEN "iphone"
    ELSE IF Contains("iPad", name) THEN "ipad"
    ELSE "universal"

\* lines 79-86
idiom(name) ==
    IF Contains("iPhone", name) THEN "iphone"
    ELSE IF Contains("iPad", name) THEN "ipad"
    ELSE IF Contains("AppStore", name) THEN "ios-marketing"
    ELSE "universal"

\* mutant: the @3x test comes first
scale_3xFirst(name) ==
    IF Contains("@3x", name) THEN "3x"
    ELSE IF Contains("@2x", name) THEN "2x"
    ELSE "1x"

\* lines 88-92
scale(name) ==
    IF Contains("@2x", name) THEN "2x"
    ELSE IF Contains("@3x", name) THEN "3x"
    ELSE "1x"

\* g is one (name, size, filename) of generated_files
image_entry(g) ==
    [filename |-> g[3], idiom |-> idiom(g[1]), scale |-> scale(g[1]),
     size |-> SizeField(g[2])]

RECURSIVE AddImageEntries(_, _)
\* for name, size, filename in generated_files: images.append(image_entry)
AddImageEntries(images, gen) ==
    IF gen = << >> THEN images
    ELSE AddImageEntries(Append(images, image_entry(Head(gen))), Tail(gen))

EmptyContents == [images |-> << >>, info |-> [author |-> "xcode", version |-> 1]]

\* mutant: generated_files.insert(0, ...)
Collect_Front(gen, rec) == <<rec>> \o gen

\* generated_files.append((name, size, filename))
Collect(gen, rec) == Append(gen, rec)

(***************************************************************************)
(* Inputs.                                                                 *)
(***************************************************************************)
RECURSIVE SubsetsUpTo(_)
SubsetsUpTo(k) ==
    IF k = 0 THEN {{}}
    ELSE LET S == SubsetsUpTo(k - 1)
         IN  S \cup {s \cup {e} : s \in S, e \in 1..N}

AllOk == [k \in 1..N |-> "ok"]

\* which statement of the try block raises for a failing entry at position k
FailKind(mode, k) ==
    IF mode = "resize" THEN "resize_error"
    ELSE IF mode = "save" THEN "save_error"
    ELSE IF k % 2 = 1 THEN "resize_error"
    ELSE "save_error"

\* at most MaxFail entries fail, or every entry fails
Outcomes ==
    {[k \in 1..N |-> IF k \in s THEN FailKind(mode, k) ELSE "ok"] :
        s \in SubsetsUpTo(MaxFail) \cup {1..N},
        mode \in {"resize", "save", "mixed"}}

StaleManifest ==
    [kind |-> "json",
     data |-> [images |-> << [filename |-> "Old.png", idiom |-> "universal",
                              scale |-> "1x", size |-> "1x1"] >>,
               info |-> [author |-> "xcode", version |-> 1]]]

StalePng == [kind |-> "png", from |-> "old.png", w |-> 1, h |-> 1]

PriorDirs ==
    { [dir |-> FALSE, files |-> NoFiles],
      [dir |-> TRUE, files |-> NoFiles],
      [dir |-> TRUE,
       files |-> WriteFile(WriteFile(WriteFile(WriteFile(NoFiles,
                     "Old.png", StalePng),
                     Filename(NameOf(1)), StalePng),
                     Filename(NameOf(N)), StalePng),
                     ContentsName, StaleManifest)] }

(***************************************************************************)
(* The run.                                                                *)
(***************************************************************************)
Init ==
    /\ pc = "load"
    /\ source_state \in {"valid", "missing", "corrupt"}
    /\ outcome \in (IF source_state = "valid" THEN Outcomes ELSE {AllOk})
    /\ prior \in PriorDirs
    /\ dir_exists = prior.dir
    /\ files = prior.files
    /\ source_image = NoImage
    /\ generated_files = << >>
    /\ contents_json = EmptyContents
    /\ i = 1
    /\ stdout = << >>
    /\ exit_status = "running"
    /\ written = {}
    /\ run = 1
    /\ cname = ""
    /\ csize = 0
    /\ cout = [filename |-> "", idiom |-> "", scale |-> "", size |-> ""]

\* lines 38-40: Image.open succeeds
LoadSource ==
    /\ pc = "load"
    /\ source_state = "valid"
    /\ source_image' = OpenedImage
    /\ stdout' = Append(stdout, [ev |-> "loaded"])
    /\ pc' = "makedirs"
    /\ UNCHANGED << source_state, outcome, dir_exists, files, generated_files,
                    contents_json, i, exit_status, written, prior, run,
                    cname, csize, cout >>

\* mutant: the handler prints and does not return
LoadError_NoReturn ==
    /\ pc = "load"
    /\ source_state # "valid"
    /\ stdout' = Append(stdout, [ev |-> "load_error"])
    /\ pc' = "makedirs"
    /\ UNCHANGED << source_state, outcome, dir_exists, files, source_image,
                    generated_files, contents_json, i, exit_status, written,
                    prior, run, cname, csize, cout >>

\* lines 41-43: Image.open raises, the handler prints and returns
LoadError ==
    /\ pc = "load"
    /\ source_state # "valid"
    /\ stdout' = Append(stdout, [ev |-> "load_error"])
    /\ pc' = "exited"
    /\ exit_status' = "0"
    /\ UNCHANGED << source_state, outcome, dir_exists, files, source_image,
                    generated_files, contents_json, i, written, prior, run,
                    cname, csize, cout >>

\* lines 46-50
MakeDirs ==
    /\ pc = "makedirs"
    /\ dir_exists' = TRUE
    /\ generated_files' = << >>
    /\ i' = 1
    /\ pc' = "generate"
    /\ UNCHANGED << source_state, outcome, files, source_image, contents_json,
                    stdout, exit_status, written, prior, run, cname, csize, cout >>

\* lines 53-63: one iteration in which resize and save succeed
GenerateIcon ==
    /\ pc = "generate"
    /\ i <= N
    /\ outcome[i] = "ok"
    /\ LET name == NameOf(i)
           size == SizeOf(i)
           filename == Filename(name)
       IN  /\ files' = WriteFile(files, filename, Resized(source_image, size))
           /\ written' = written \cup {filename}
           /\ generated_files' = Collect(generated_files, <<name, size, filename>>)
           /\ stdout' = Append(stdout, [ev |-> "generated", name |-> name,
                                        filename |-> filename,
                                        size |-> SizeField(size)])
    /\ i' = i + 1
    /\ UNCHANGED << pc, source_state, outcome, dir_exists, source_image,
                    contents_json, exit_status, prior, run, cname, csize, cout >>

\* mutant: the append sits outside the try, so a failed entry is collected
ExceptEntry_Collect ==
    /\ stdout' = Append(stdout, [ev |-> "error", name |-> NameOf(i)])
    /\ generated_files' =
           Collect(generated_files, <<NameOf(i), SizeOf(i), Filename(NameOf(i))>>)
    /\ i' = i + 1
    /\ UNCHANGED << pc, exit_status >>

\* mutant: the handler leaves the loop
ExceptEntry_Break ==
    /\ stdout' = Append(stdout, [ev |-> "error", name |-> NameOf(i)])
    /\ i' = N + 1
    /\ UNCHANGED << pc, exit_status, generated_files >>

\* mutant: no handler, the exception ends the process
ExceptEntry_Raise ==
    /\ pc' = "exited"
    /\ exit_status' = "1"
    /\ UNCHANGED << stdout, i, generated_files >>

\* lines 65-66: the per-entry handler prints the error; the loop goes on
ExceptEntry ==
    /\ stdout' = Append(stdout, [ev |-> "error", name |-> NameOf(i)])
    /\ i' = i + 1
    /\ UNCHANGED << pc, exit_status, generated_files >>

\* line 55 raises: nothing was written
ResizeError ==
    /\ pc = "generate"
    /\ i <= N
    /\ outcome[i] = "resize_error"
    /\ ExceptEntry
    /\ UNCHANGED << source_state, outcome, dir_exists, files, source_image,
                    contents_json, written, prior, run, cname, csize, cout >>

\* line 60 raises after the file was opened: a partial file is left
SaveError ==
    /\ pc = "generate"
    /\ i <= N
    /\ outcome[i] = "save_error"
    /\ files' = WriteFile(files, Filename(NameOf(i)), PartialFile)
    /\ ExceptEntry
    /\ UNCHANGED << source_state, outcome, dir_exists, source_image,
                    contents_json, written, prior, run, cname, csize, cout >>

\* lines 69-101: the manifest object and its images loop
BuildContents ==
    /\ pc = "generate"
    /\ i > N
    /\ contents_json' =
           [EmptyContents EXCEPT
               !.images = AddImageEntries(EmptyContents.images, generated_files)]
    /\ pc' = "save"
    /\ UNCHANGED << source_state, outcome, dir_exists, files, source_image,
                    generated_files, i, stdout, exit_status, written, prior,
                    run, cname, csize, cout >>

\* lines 104-107
SaveContents ==
    /\ pc = "save"
    /\ files' = WriteFile(files, ContentsName,
                          [kind |-> "json", data |-> contents_json])
    /\ pc' = "summary"
    /\ UNCHANGED << source_state, outcome, dir_exists, source_image,
                    generated_files, contents_json, i, stdout, exit_status,
                    written, prior, run, cname, csize, cout >>

\* lines 109-115: the closing prints, the return and the process exit
Summary ==
    /\ pc = "summary"
    /\ stdout' = stdout \o << [ev |-> "count", n |-> Len(generated_files)],
                              [ev |-> "created_contents"],
                              [ev |-> "saved_to"],
                              [ev |-> "ready"] >>
    /\ pc' = "exited"
    /\ exit_status' = "0"
    /\ UNCHANGED << source_state, outcome, dir_exists, files, source_image,
                    generated_files, contents_json, i, written, prior, run,
                    cname, csize, cout >>

Next ==
    \/ LoadSource
    \/ LoadError
    \/ MakeDirs
    \/ GenerateIcon
    \/ ResizeError
    \/ SaveError
    \/ BuildContents
    \/ SaveContents
    \/ Summary

Spec == Init /\ [][Next]_vars

\* The run is one sequential procedure: a step that can be taken is taken.
FairSpec == Init /\ [][Next]_vars /\ WF_vars(Next)

(***************************************************************************)
(* The script run a second time: same source file, same table, same        *)
(* per-entry outcomes, on the directory the first run left.                *)
(***************************************************************************)
\* lines 114-115, invoked again after the first process has exited
Rerun ==
    /\ pc = "exited"
    /\ run = 1
    /\ run' = 2
    /\ prior' = [dir |-> dir_exists, files |-> files]
    /\ pc' = "load"
    /\ source_image' = NoImage
    /\ generated_files' = << >>
    /\ contents_json' = EmptyContents
    /\ i' = 1
    /\ stdout' = << >>
    /\ exit_status' = "running"
    /\ written' = {}
    /\ UNCHANGED << source_state, outcome, dir_exists, files, cname, csize, cout >>

NextRerun ==
    \/ Next
    \/ Rerun

SpecRerun == Init /\ [][NextRerun]_vars

(***************************************************************************)
(* The manifest loop body applied to names beyond the table: idiom and     *)
(* scale are functions of the name alone.                                  *)
(***************************************************************************)
Tokens == {"iPhone", "iPad", "AppStore", "@2x", "@3x", "-20"}

RECURSIVE NamesUpTo(_)
NamesUpTo(k) ==
    IF k = 0 THEN {""}
    ELSE LET S == NamesUpTo(k - 1)
         IN  S \cup {s \o t : s \in S, t \in Tokens}

ClassifyInit ==
    /\ pc = "classify"
    /\ cname \in NamesUpTo(MaxTokens)
    /\ csize \in {20, 180}
    /\ cout = [filename |-> "", idiom |-> "", scale |-> "", size |-> ""]
    /\ source_state = "valid"
    /\ outcome = AllOk
    /\ prior = [dir |-> FALSE, files |-> NoFiles]
    /\ dir_exists = FALSE
    /\ files = NoFiles
    /\ source_image = NoImage
    /\ generated_files = << >>
    /\ contents_json = EmptyContents
    /\ i = 1
    /\ stdout = << >>
    /\ exit_status = "running"
    /\ written = {}
    /\ run = 1

\* lines 78-99 for one (name, size, filename)
Classify ==
    /\ pc = "classify"
    /\ cout' = image_entry(<<cname, csize, Filename(cname)>>)
    /\ pc' = "classified"
    /\ UNCHANGED << source_state, outcome, dir_exists, files, source_image,
                    generated_files, contents_json, i, stdout, exit_status,
                    written, prior, run, cname, csize >>

ClassifyNext == Classify

SpecClassify == ClassifyInit /\ [][ClassifyNext]_vars

(***************************************************************************)
(* Properties.                                                             *)
(***************************************************************************)
Loaded == source_image # NoImage

Finished == pc = "exited"

\* the run has written Contents.json
ManifestSaved == Loaded /\ pc \in {"summary", "exited"}

\* the images list of the Contents.json on disk
Manifest == files[ContentsName].data.images

OkEntries == {k \in 1..N : outcome[k] = "ok"}

FailedEntries == {k \in 1..N : outcome[k] # "ok"}

ExpectedPng(k) ==
    [kind |-> "png", from |-> "icon.png", w |-> SizeOf(k), h |-> SizeOf(k)]

\* the generation loop reached table entry k: it printed a line about it
Attempted(k) ==
    \E j \in 1..Len(stdout) :
        /\ stdout[j].ev \in {"generated", "error"}
        /\ stdout[j].name = NameOf(k)

TableIndex(filename) == CHOOSE k \in 1..N : Filename(NameOf(k)) = filename

\* C1 (as amended): the table has 18 entries, and a run in which the source
\* loads and no entry fails writes exactly 18 icon files, one per table
\* entry, each edge x edge pixels of its entry.
C1_AllIconsWritten ==
    (Finished /\ Loaded /\ outcome = AllOk) =>
        /\ Len(icon_sizes) = 18
        /\ Cardinality(written) = 18
        /\ written = {NameOf(k) \o ".png" : k \in 1..N}
        /\ \A k \in 1..N :
              /\ NameOf(k) \o ".png" \in DOMAIN files
              /\ files[NameOf(k) \o ".png"] = ExpectedPng(k)

C1_Witness == Finished /\ Loaded /\ outcome = AllOk /\ Cardinality(written) = N

\* C1 as stated: 17 table entries and exactly 17 files.
C1_Original ==
    (Finished /\ Loaded /\ outcome = AllOk) =>
        /\ Len(icon_sizes) = 17
        /\ Cardinality(written) = 17

\* C2: once the manifest is on disk, its images list is as long as the set
\* of files written in the run, every written file has exactly one entry,
\* and every entry names a written file.
C2_ManifestMatchesWritten ==
    ManifestSaved =>
        /\ Len(Manifest) = Cardinality(written)
        /\ \A f \in written :
              Cardinality({j \in 1..Len(Manifest) : Manifest[j].filename = f}) = 1
        /\ \A j \in 1..Len(Manifest) : Manifest[j].filename \in written
        /\ \A k \in FailedEntries :
              \A j \in 1..Len(Manifest) :
                 Manifest[j].filename # NameOf(k) \o ".png"

C2_Witness ==
    /\ Finished
    /\ Loaded
    /\ FailedEntries # {}
    /\ OkEntries # {}
    /\ Len(Manifest) = Cardinality(OkEntries)

\* C3: when the source does not load, the output directory and every file
\* in it stay as they were: no directory, no icon, no Contents.json.
C3_NoOutputWhenLoadFails ==
    source_state # "valid" =>
        /\ dir_exists = prior.dir
        /\ files = prior.files
        /\ written = {}
        /\ pc \in {"load", "exited"}

C3_Witness ==
    /\ Finished
    /\ source_state = "missing"
    /\ ~dir_exists
    /\ ContentsName \notin DOMAIN files

\* C4: a failed entry does not end the run: files written for earlier
\* entries stay in place, every entry is attempted, a failed entry is in
\* neither generated_files nor the manifest, and the manifest is written.
C4_FailureDoesNotAbort ==
    Loaded =>
        /\ \A k \in OkEntries :
              k < i => /\ Filename(NameOf(k)) \in DOMAIN files
                       /\ files[Filename(NameOf(k))] = ExpectedPng(k)
        /\ Finished =>
              /\ \A k \in 1..N : Attempted(k)
              /\ \A k \in FailedEntries :
                    /\ \A j \in 1..Len(generated_files) :
                          generated_files[j][1] # NameOf(k)
                    /\ \A j \in 1..Len(Manifest) :
                          Manifest[j].filename # Filename(NameOf(k))
              /\ ContentsName \in DOMAIN files
              /\ files[ContentsName] = [kind |-> "json", data |-> contents_json]
              /\ Len(Manifest) = Cardinality(OkEntries)

C4_Witness ==
    /\ Finished
    /\ Loaded
    /\ \E k \in 2..(N - 1) :
          /\ outcome[k] # "ok"
          /\ outcome[k - 1] = "ok"
          /\ outcome[k + 1] = "ok"
          /\ Attempted(k + 1)
          /\ files[Filename(NameOf(k - 1))] = ExpectedPng(k - 1)

\* every entry fails and the manifest is written all the same
C4_AllFailReached ==
    Finished /\ Loaded /\ OkEntries = {} /\ Manifest = << >>

HasIPhone == Contains("iPhone", cname)

HasIPad == Contains("iPad", cname)

HasAppStore == Contains("AppStore", cname)

Has2x == Contains("@2x", cname)

Has3x == Contains("@3x", cname)

C7_ManifestInProcessingOrder ==
    Loaded =>
        /\ ManifestSaved =>
              /\ {Manifest[j].filename : j \in 1..Len(Manifest)}
                    = {Filename(NameOf(k)) : k \in OkEntries}
              /\ LET idx == [j \in 1..Len(Manifest) |->
                                TableIndex(Manifest[j].filename)]
                 IN  \A a, b \in 1..Len(Manifest) :
                        (a < b) <=> (idx[a] < idx[b])
              /\ \A k \in 1..N : Attempted(k)
        /\ ~ManifestSaved =>
              /\ (ContentsName \in DOMAIN files)
                    = (ContentsName \in DOMAIN prior.files)
              /\ ContentsName \in DOMAIN files =>
                    files[ContentsName] = prior.files[ContentsName]

C7_Witness ==
    /\ Finished
    /\ Loaded
    /\ FailedEntries # {}
    /\ Len(Manifest) >= 2
    /\ TableIndex(Manifest[1].filename) < TableIndex(Manifest[2].filename)

\* C8: the manifest entry of table entry (name, edge) has filename
\* "<name>.png" and size "<edge>x<edge>"; ("iPhone-60@3x", 180) gives the file
\* "iPhone-60@3x.png" and the entry iphone / 3x / "180x180".
C8_FilenameAndSizeField ==
    ManifestSaved =>
        /\ \A k \in OkEntries :
              \E j \in 1..Len(Manifest) :
                 /\ Manifest[j].filename = NameOf(k) \o ".png"
                 /\ Manifest[j].size
                       = ToString(SizeOf(k)) \o "x" \o ToString(SizeOf(k))
        /\ \A j \in 1..Len(Manifest) :
              \E k \in OkEntries :
                 /\ Manifest[j].filename = NameOf(k) \o ".png"
                 /\ Manifest[j].size
                       = ToString(SizeOf(k)) \o "x" \o ToString(SizeOf(k))
        /\ \E k \in 1..N :
              /\ icon_sizes[k] = <<"iPhone-60@3x", 180>>
              /\ outcome[k] = "ok" =>
                    /\ files["iPhone-60@3x.png"]
                          = [kind |-> "png", from |-> "icon.png",
                             w |-> 180, h |-> 180]
                    /\ \E j \in 1..Len(Manifest) :
                          Manifest[j] = [filename |-> "iPhone-60@3x.png",
                                         idiom |-> "iphone", scale |-> "3x",
                                         size |-> "180x180"]

C8_Witness ==
    /\ Finished
    /\ Loaded
    /\ \E j \in 1..Len(Manifest) : Manifest[j].filename = "iPhone-60@3x.png"
    /\ \E j \in 1..Len(Manifest) : Manifest[j].size = "1024x1024"

\* C9: a second run with the same source and the same per-entry outcomes
\* leaves the output directory, its files and Contents.json exactly as the
\* first run left them.
C9_SecondRunIdempotent ==
    (run = 2 /\ Finished) =>
        /\ dir_exists = prior.dir
        /\ files = prior.files
        /\ written = IF Loaded THEN {Filename(NameOf(k)) : k \in OkEntries} ELSE {}

C9_Witness ==
    /\ run = 2
    /\ Finished
    /\ Loaded
    /\ written # {}
    /\ \E k \in 1..N : outcome[k] = "save_error"
    /\ files[ContentsName] = [kind |-> "json", data |-> contents_json]

\* C10: every run ends, with exit status 0 whatever entries failed, and a
\* run that loaded the source ends after printing the count of the files
\* it generated.
C10_TerminatesNormally ==
    /\ <>Finished
    /\ [](Finished =>
            /\ exit_status = "0"
            /\ Loaded =>
                  /\ Len(stdout) >= 4
                  /\ stdout[Len(stdout) - 3]
                        = [ev |-> "count", n |-> Cardinality(written)])

C10_Witness ==
    /\ Finished
    /\ Loaded
    /\ exit_status = "0"
    /\ FailedEntries # {}
    /\ stdout[Len(stdout) - 3] = [ev |-> "count", n |-> N - Cardinality(FailedEntries)]

====
